---- MODULE Spec2Model ----
(***************************************************************************)
(* A model of go-mongo-lib: the configuration translator (Config.connect,  *)
(* src/connect.go) and the client facade (Client.CreateOne ... Client.     *)
(* ReadWithProjection, src/unnamed/part_000).  The MongoDB driver is the   *)
(* external collaborator: each of its calls either fails with an error the *)
(* environment chooses or answers from a store of documents.               *)
(***************************************************************************)
EXTENDS Integers, Sequences, FiniteSets, TLC

VARIABLES
    config,       \* the *Config the last New was called with
    options,      \* mongoConnOptions as built by the last connect
    driverCalls,  \* the driver calls the last New/connect issued, in order
    dbClient,     \* the *Client returned by the last New (Nil: nil)
    err,          \* the error returned by the last New (Nil: nil)
    store,        \* the driver's documents, per collection
    openCursors,  \* cursors opened by Find and not yet closed
    last,         \* the last facade call: its arguments, driver calls and results
    chain         \* history: progress of the create/read/delete/read sequence

vars == <<config, options, driverCalls, dbClient, err, store, openCursors, last, chain>>

connectVars == <<config, options, driverCalls, dbClient, err>>
clientVars == <<store, openCursors, last, chain>>

\* Go's nil, for pointers, interfaces, slices and errors alike; a non-nil one
\* holds its value.
Nil == <<>>
Ref(v) == <<v>>
Deref(p) == p[1]

\* A field of options.ClientOptions that no setter touched (a nil pointer): the
\* driver's default applies.
Unset == Nil

-----------------------------------------------------------------------------
(* Bounds of the model *)

\* At most this many tuning fields of a Connection are non-zero at once.
MaxNonZero == 2
\* Pool sizes range over 0..MaxPool.
MaxPool == 1
\* Millisecond fields range over -1..MaxMillis.
MaxMillis == 1
\* Document ids range over 1..MaxId.
MaxId == 2

-----------------------------------------------------------------------------
(* Config and Connection: src/connect.go 16-44 *)

PoolFields == {"MinPoolSize", "MaxPoolSize", "MaxConnecting"}
MillisFields == {"MaxConnIdleTime", "ServerSelectionTimeout", "SocketTimeout",
                 "Timeout", "WriteConcernTimeout"}
BoolFields == {"RetryReads", "RetryWrites", "ReadConcernWithMajority",
               "ReadSecondaryPreferred", "WriteConcernWithMajority"}
StringFields == {"ReplicaSetName"}
ConnectionFields == PoolFields \cup MillisFields \cup BoolFields \cup StringFields

\* Go's zero value of a Connection field.
ZeroValue(f) ==
    IF f \in BoolFields THEN FALSE
    ELSE IF f \in StringFields THEN ""
    ELSE 0

\* The non-zero values a Connection field takes in the model, numbered from 1:
\* pool sizes 1..MaxPool, milliseconds -1 and 1..MaxMillis, true, "rs0".
NonZeroCount(f) ==
    IF f \in PoolFields THEN MaxPool
    ELSE IF f \in MillisFields THEN MaxMillis + 1
    ELSE 1

NonZeroValue(f, i) ==
    IF f \in PoolFields THEN i
    ELSE IF f \in MillisFields THEN (IF i = 1 THEN -1 ELSE i - 1)
    ELSE IF f \in BoolFields THEN TRUE
    ELSE "rs0"

MaxNonZeroCount == IF MaxPool > MaxMillis + 1 THEN MaxPool ELSE MaxMillis + 1

FieldSets == {S \in SUBSET ConnectionFields : Cardinality(S) <= MaxNonZero}

\* Every Connection with at most MaxNonZero non-zero fields.
Connections ==
    UNION {
        {[f \in ConnectionFields |->
                IF f \in S THEN NonZeroValue(f, g[f]) ELSE ZeroValue(f)] :
            g \in {h \in [S -> 1..MaxNonZeroCount] : \A f \in S : h[f] <= NonZeroCount(f)}}
        : S \in FieldSets}

HostLists == {<<>>, <<"localhost:27017">>}
Credentials == {[User |-> "admin", Password |-> "secret", AuthSource |-> "admin"]}

Configs ==
    {[Hosts |-> h, AuthEnabled |-> a, User |-> cr.User, Password |-> cr.Password,
      AuthSource |-> cr.AuthSource, TLSEnabled |-> t, Database |-> "testdb",
      Connection |-> cn] :
        h \in HostLists, a \in BOOLEAN, cr \in Credentials, t \in BOOLEAN,
        cn \in {Nil} \cup {Ref(x) : x \in Connections}}

\* The errors the driver raises for a failed call (transport or server side).
DriverErrors == {Ref("context deadline exceeded"), Ref("connection reset by peer")}

-----------------------------------------------------------------------------
(* Config.connect: src/connect.go 59-170 *)

\* time.Millisecond, in nanoseconds.
Millisecond == 1000000

\* time.Duration(ms) * time.Millisecond
Duration(ms) == ms * Millisecond

\* &options.ClientOptions{Hosts: c.Hosts}: every other field is left nil.
NewClientOptions(hosts) ==
    [Hosts |-> hosts, TLSConfig |-> Unset, Auth |-> Unset,
     MinPoolSize |-> Unset, MaxPoolSize |-> Unset, MaxConnecting |-> Unset,
     MaxConnIdleTime |-> Unset, ServerSelectionTimeout |-> Unset,
     SocketTimeout |-> Unset, Timeout |-> Unset,
     ReadConcern |-> Unset, ReadPreference |-> Unset, WriteConcern |-> Unset,
     ReplicaSet |-> Unset, RetryReads |-> Unset, RetryWrites |-> Unset]

\* if c.TLSEnabled { mongoConnOptions.TLSConfig = &tls.Config{InsecureSkipVerify: true} }
ApplyTLS(o, c) ==
    IF c.TLSEnabled
    THEN [o EXCEPT !.TLSConfig = Ref([InsecureSkipVerify |-> TRUE])]
    ELSE o

\* if c.AuthEnabled { mongoConnOptions.Auth = &options.Credential{...} }
ApplyAuth(o, c) ==
    IF c.AuthEnabled
    THEN [o EXCEPT !.Auth = Ref([Username |-> c.User, Password |-> c.Password,
                                 AuthSource |-> c.AuthSource])]
    ELSE o

\* Mutant of ApplyPool: the setter is called without the test for zero.
ApplyPoolAlways(o, cn, f) ==
    [o EXCEPT ![f] = Ref(cn[f])]

\* if c.Connection.<field> != 0 { mongoConnOptions.Set<field>(c.Connection.<field>) }
ApplyPool(o, cn, f) ==
    IF cn[f] # 0 THEN [o EXCEPT ![f] = Ref(cn[f])] ELSE o

\* if c.Connection.<field> != 0 { mongoConnOptions.Set<field>(time.Duration(...) * time.Millisecond) }
ApplyMillis(o, cn, f) ==
    IF cn[f] # 0 THEN [o EXCEPT ![f] = Ref(Duration(cn[f]))] ELSE o

\* readconcern.New(readconcern.Level(readconcern.Majority().GetLevel()))
ApplyReadConcern(o, cn) ==
    IF cn.ReadConcernWithMajority
    THEN [o EXCEPT !.ReadConcern = Ref([Level |-> "majority"])]
    ELSE o

\* readpref.SecondaryPreferred()
ApplyReadPreference(o, cn) ==
    IF cn.ReadSecondaryPreferred
    THEN [o EXCEPT !.ReadPreference = Ref([Mode |-> "secondaryPreferred"])]
    ELSE o

\* writeconcern.New(writeconcern.WMajority())
WriteConcernNew == [W |-> "majority", WTimeout |-> 0]

\* wc.WithOptions(writeconcern.WTimeout(d)): the driver returns a copy of wc with
\* the option applied and leaves wc itself as it was.
WithOptions(wc, d) == [copy |-> [wc EXCEPT !.WTimeout = d], receiver |-> wc]

\* The wc handed to SetWriteConcern: the result of wc.WithOptions is not assigned,
\* so wc is what writeconcern.New made.
BuildWriteConcern(cn) ==
    LET wc == WriteConcernNew
    IN  IF cn.WriteConcernTimeout # 0
        THEN WithOptions(wc, Duration(cn.WriteConcernTimeout)).receiver
        ELSE wc

ApplyWriteConcern(o, cn) ==
    IF cn.WriteConcernWithMajority
    THEN [o EXCEPT !.WriteConcern = Ref(BuildWriteConcern(cn))]
    ELSE o

\* if c.Connection != nil { ... }: the setters in the order of the source.
\* ReplicaSetName, RetryReads and RetryWrites are read by no statement.
ApplyConnection(o, connection) ==
    IF connection = Nil THEN o
    ELSE
        LET cn == Deref(connection)
            o1 == ApplyPool(o, cn, "MinPoolSize")
            o2 == ApplyPool(o1, cn, "MaxPoolSize")
            o3 == ApplyPool(o2, cn, "MaxConnecting")
            o4 == ApplyMillis(o3, cn, "MaxConnIdleTime")
            o5 == ApplyMillis(o4, cn, "ServerSelectionTimeout")
            o6 == ApplyMillis(o5, cn, "SocketTimeout")
            o7 == ApplyMillis(o6, cn, "Timeout")
            o8 == ApplyReadConcern(o7, cn)
            o9 == ApplyReadPreference(o8, cn)
        IN  ApplyWriteConcern(o9, cn)

\* The options connect hands to mongo.NewClient.
BuildOptions(c) ==
    ApplyConnection(ApplyAuth(ApplyTLS(NewClientOptions(c.Hosts), c), c), c.Connection)

\* errors.New("client connection failed " + err.Error())
ConnectFailed(e) == Ref("client connection failed " \o Deref(e))

\* Mutant of PingFailed: the ping failure wrapped with the connect failure's text.
PingFailedAsConnect(e) == Ref("client connection failed " \o Deref(e))

\* errors.New("client ping failed ->" + err.Error())
PingFailed(e) == Ref("client ping failed ->" \o Deref(e))

\* Mutant of Connect: the error of client.Ping is not looked at.
ConnectIgnoresPing(c, ncErr, cErr, pErr) ==
    LET o == BuildOptions(c)
        called(fn, e) == [fn |-> fn, err |-> e]
    IN  IF ncErr # Nil THEN
            [options |-> o, calls |-> <<called("NewClient", ncErr)>>,
             dbClient |-> Nil, err |-> ncErr]
        ELSE IF cErr # Nil THEN
            [options |-> o,
             calls |-> <<called("NewClient", Nil), called("Connect", cErr)>>,
             dbClient |-> Nil, err |-> ConnectFailed(cErr)]
        ELSE
            [options |-> o,
             calls |-> <<called("NewClient", Nil), called("Connect", Nil),
                         called("Ping", pErr)>>,
             dbClient |-> Ref([database |-> c.Database]), err |-> Nil]

\* mongo.NewClient, client.Connect and client.Ping, each returning early on an
\* error; ncErr, cErr, pErr are what the driver answers to each (Nil: success).
Connect(c, ncErr, cErr, pErr) ==
    LET o == BuildOptions(c)
        called(fn, e) == [fn |-> fn, err |-> e]
    IN  IF ncErr # Nil THEN
            [options |-> o, calls |-> <<called("NewClient", ncErr)>>,
             dbClient |-> Nil, err |-> ncErr]
        ELSE IF cErr # Nil THEN
            [options |-> o,
             calls |-> <<called("NewClient", Nil), called("Connect", cErr)>>,
             dbClient |-> Nil, err |-> ConnectFailed(cErr)]
        ELSE IF pErr # Nil THEN
            [options |-> o,
             calls |-> <<called("NewClient", Nil), called("Connect", Nil),
                         called("Ping", pErr)>>,
             dbClient |-> Nil, err |-> PingFailed(pErr)]
        ELSE
            [options |-> o,
             calls |-> <<called("NewClient", Nil), called("Connect", Nil),
                         called("Ping", Nil)>>,
             dbClient |-> Ref([database |-> c.Database]), err |-> Nil]

\* func New(config *Config) (dbClient *Client, err error): the one call that
\* constructs this client; nothing of an earlier call is carried into it.
New ==
    /\ config = Nil
    /\ \E c \in Configs, ncErr, cErr, pErr \in {Nil} \cup DriverErrors :
        LET r == Connect(c, ncErr, cErr, pErr)
        IN  /\ config' = Ref(c)
            /\ options' = Ref(r.options)
            /\ driverCalls' = r.calls
            /\ dbClient' = IF r.err # Nil THEN Nil ELSE r.dbClient
            /\ err' = r.err
            /\ UNCHANGED clientVars

-----------------------------------------------------------------------------
(* The driver behind the handle: a store of documents per collection *)

Collections == {"widgets"}
Names == {"a", "b"}
Docs == [_id : 1..MaxId, name : Names]

\* mongo.ErrNoDocuments, the sentinel FindOne(...).Decode answers with when no
\* document matches.
ErrNoDocuments == Ref("mongo: no documents in result")

\* The write error InsertOne answers with when the _id is already present.
ErrDuplicateKey == Ref("E11000 duplicate key error")

\* The queries of the model: every document, the document with an _id, the
\* documents with a name.
Queries ==
    {[field |-> "", id |-> 0, name |-> ""]}
    \cup {[field |-> "_id", id |-> i, name |-> ""] : i \in 1..MaxId}
    \cup {[field |-> "name", id |-> 0, name |-> n] : n \in Names}

ById(i) == [field |-> "_id", id |-> i, name |-> ""]

Matching(docs, q) ==
    {d \in docs : \/ q.field = ""
                  \/ q.field = "_id" /\ d._id = q.id
                  \/ q.field = "name" /\ d.name = q.name}

\* The projections of the model: the fields a read returns.
Projections == {{"_id"}, {"_id", "name"}}
AllFields == {"_id", "name"}

Project(d, fields) ==
    [_id |-> d._id, name |-> IF "name" \in fields THEN d.name ELSE ""]

\* The documents of a set in the order the cursor yields them (by _id).
RECURSIVE InOrder(_)
InOrder(docs) ==
    IF docs = {} THEN <<>>
    ELSE LET d == CHOOSE x \in docs : \A y \in docs : x._id <= y._id
         IN  <<d>> \o InOrder(docs \ {d})

\* Collection.InsertOne: fails with the environment's error, or with a duplicate
\* key, or stores the document.
InsertOne(docs, d, fail) ==
    IF fail # Nil THEN [docs |-> docs, err |-> fail]
    ELSE IF \E x \in docs : x._id = d._id THEN [docs |-> docs, err |-> ErrDuplicateKey]
    ELSE [docs |-> docs \cup {d}, err |-> Nil]

\* Collection.FindOne(...).Decode: the answers the driver may give.
FindOne(docs, q, fail) ==
    IF fail # Nil THEN {[res |-> Nil, err |-> fail]}
    ELSE IF Matching(docs, q) = {} THEN {[res |-> Nil, err |-> ErrNoDocuments]}
    ELSE {[res |-> Ref(d), err |-> Nil] : d \in Matching(docs, q)}

\* Collection.UpdateOne with {"$set": {"name": n}}: one matching document changes.
DriverUpdateOne(docs, q, n, fail) ==
    IF fail # Nil THEN {[docs |-> docs, err |-> fail]}
    ELSE IF Matching(docs, q) = {} THEN {[docs |-> docs, err |-> Nil]}
    ELSE {[docs |-> (docs \ {d}) \cup {[d EXCEPT !.name = n]}, err |-> Nil] :
            d \in Matching(docs, q)}

\* Collection.DeleteOne: one matching document goes; DeletedCount says whether.
DriverDeleteOne(docs, q, fail) ==
    IF fail # Nil THEN {[docs |-> docs, DeletedCount |-> 0, err |-> fail]}
    ELSE IF Matching(docs, q) = {} THEN {[docs |-> docs, DeletedCount |-> 0, err |-> Nil]}
    ELSE {[docs |-> docs \ {d}, DeletedCount |-> 1, err |-> Nil] :
            d \in Matching(docs, q)}

\* Collection.Find: an error and no cursor, or a cursor over the matching documents.
Find(docs, q, fields, fail) ==
    IF fail # Nil THEN [cursor |-> Nil, err |-> fail]
    ELSE [cursor |-> Ref(InOrder({Project(d, fields) : d \in Matching(docs, q)})),
          err |-> Nil]

\* cursor.All(ctx, &res): an error, or every document of the cursor.
All(cursor, fail) ==
    IF fail # Nil THEN [res |-> Nil, err |-> fail]
    ELSE [res |-> Ref(Deref(cursor)), err |-> Nil]

-----------------------------------------------------------------------------
(* Client: src/unnamed/part_000 *)

Called(fn, e) == [fn |-> fn, err |-> e]

\* `last` before any call; a call fills in its arguments, the number of documents
\* its query matched, the driver calls it made, the driver's DeletedCount, what it
\* returned (res, count, err) and the cursors it opened and closed.
NoCall ==
    [op |-> "", collection |-> "", query |-> Nil, document |-> Nil,
     matched |-> 0, calls |-> <<>>, deleted |-> 0,
     res |-> Nil, count |-> 0, err |-> Nil, cursors |-> 0, closes |-> 0]

\* Mutant of CreateOneReturn: the driver's error is wrapped in a new one.
CreateOneReturnWrapped(drv) ==
    IF drv.err # Nil THEN [err |-> Ref("create failed " \o Deref(drv.err))]
    ELSE [err |-> Nil]

\* func (c *Client) CreateOne: _, err = InsertOne(...); if err != nil return err; return nil
CreateOneReturn(drv) ==
    IF drv.err # Nil THEN [err |-> drv.err] ELSE [err |-> Nil]

\* Mutant of ReadOneReturn: the no-documents sentinel is returned like any error.
ReadOneReturnNoSentinel(drv) ==
    IF drv.err # Nil THEN [res |-> Nil, err |-> drv.err]
    ELSE [res |-> drv.res, err |-> Nil]

\* Mutant of ReadOneReturn: the decoded document is not returned.
ReadOneReturnDropsResult(drv) ==
    IF drv.err # Nil THEN
        IF drv.err = ErrNoDocuments
        THEN [res |-> Nil, err |-> Nil]
        ELSE [res |-> Nil, err |-> drv.err]
    ELSE [res |-> Nil, err |-> Nil]

\* func (c *Client) ReadOne: ErrNoDocuments becomes (nil, nil), any other error
\* (nil, err), a document (res, nil).
ReadOneReturn(drv) ==
    IF drv.err # Nil THEN
        IF drv.err = ErrNoDocuments
        THEN [res |-> Nil, err |-> Nil]
        ELSE [res |-> Nil, err |-> drv.err]
    ELSE [res |-> drv.res, err |-> Nil]

\* func (c *Client) UpdateOne: _, err = UpdateOne(...); if err != nil return err; return nil
UpdateOneReturn(drv) ==
    IF drv.err # Nil THEN [err |-> drv.err] ELSE [err |-> Nil]

\* Mutant of DeleteOneReturn: count is never assigned result.DeletedCount.
DeleteOneReturnNoCount(drv) ==
    IF drv.err # Nil THEN [count |-> 0, err |-> drv.err]
    ELSE [count |-> 0, err |-> Nil]

\* func (c *Client) DeleteOne: (0, err) on an error, (result.DeletedCount, nil) otherwise.
DeleteOneReturn(drv) ==
    IF drv.err # Nil THEN [count |-> 0, err |-> drv.err]
    ELSE [count |-> drv.DeletedCount, err |-> Nil]

\* What the driver answers to Find and to cursor.All: All is reached only when
\* Find succeeded.
ReadAnswers ==
    {<<f, a>> \in ({Nil} \cup DriverErrors) \X ({Nil} \cup DriverErrors) :
        f = Nil \/ a = Nil}

\* Mutant of ReadBody: the cursor is closed at the end of the function instead of
\* by a defer, so the return on a cursor.All error leaves it open.
ReadBodyCloseAtEnd(docs, q, fields, findFail, allFail) ==
    LET f == Find(docs, q, fields, findFail)
    IN  IF f.err # Nil THEN
            [calls |-> <<Called("Find", f.err)>>, res |-> Nil, err |-> f.err,
             cursors |-> 0, closes |-> 0]
        ELSE
            LET a == All(f.cursor, allFail)
                log == <<Called("Find", Nil), Called("All", a.err), Called("Close", Nil)>>
            IN  IF a.err # Nil THEN
                    [calls |-> <<Called("Find", Nil), Called("All", a.err)>>,
                     res |-> Nil, err |-> a.err, cursors |-> 1, closes |-> 0]
                ELSE IF Len(Deref(a.res)) = 0 THEN
                    [calls |-> log, res |-> Nil, err |-> Nil, cursors |-> 1, closes |-> 1]
                ELSE
                    [calls |-> log, res |-> a.res, err |-> Nil, cursors |-> 1, closes |-> 1]

\* The body Read and ReadWithProjection share: Find, `defer cursor.Close(ctx)`,
\* cursor.All, the empty result made nil.  The deferred Close runs on every return
\* after the defer statement, and on none before it.
ReadBody(docs, q, fields, findFail, allFail) ==
    LET f == Find(docs, q, fields, findFail)
    IN  IF f.err # Nil THEN
            [calls |-> <<Called("Find", f.err)>>, res |-> Nil, err |-> f.err,
             cursors |-> 0, closes |-> 0]
        ELSE
            LET a == All(f.cursor, allFail)
                log == <<Called("Find", Nil), Called("All", a.err), Called("Close", Nil)>>
            IN  IF a.err # Nil THEN
                    [calls |-> log, res |-> Nil, err |-> a.err, cursors |-> 1, closes |-> 1]
                ELSE IF Len(Deref(a.res)) = 0 THEN
                    [calls |-> log, res |-> Nil, err |-> Nil, cursors |-> 1, closes |-> 1]
                ELSE
                    [calls |-> log, res |-> a.res, err |-> Nil, cursors |-> 1, closes |-> 1]

\* func (c *Client) Read: Find(ctx, query)
ReadReturn(docs, q, findFail, allFail) ==
    ReadBody(docs, q, AllFields, findFail, allFail)

\* func (c *Client) ReadWithProjection: Find(ctx, query, options.Find().SetProjection(projection))
ReadWithProjectionReturn(docs, q, projection, findFail, allFail) ==
    ReadBody(docs, q, projection, findFail, allFail)

\* The create/read/delete/read sequence on one collection and _id, as far as the
\* calls so far have followed it: 1 after a CreateOne that returned nil, 2 after a
\* ReadOne of that _id right after it, 3 after a DeleteOne of that _id right after
\* that, 4 after a ReadOne of that _id right after that.  A call the driver
\* failed with an error of the environment's, or any other call, starts over.
NoChain == [stage |-> 0, collection |-> "", doc |-> Nil]

Follows(op, c, q, fail) ==
    /\ fail = Nil
    /\ chain.stage > 0
    /\ c = chain.collection
    /\ q = ById(Deref(chain.doc)._id)
    /\ \/ op = "ReadOne" /\ chain.stage \in {1, 3}
       \/ op = "DeleteOne" /\ chain.stage = 2

Advance(op, c, q, fail) ==
    IF Follows(op, c, q, fail)
    THEN [chain EXCEPT !.stage = chain.stage + 1]
    ELSE NoChain

Connected == dbClient # Nil

CreateOne ==
    /\ Connected
    /\ \E c \in Collections, d \in Docs, fail \in {Nil} \cup DriverErrors :
        LET drv == InsertOne(store[c], d, fail)
            r == CreateOneReturn(drv)
        IN  /\ store' = [store EXCEPT ![c] = drv.docs]
            /\ last' = [NoCall EXCEPT !.op = "CreateOne", !.collection = c,
                            !.document = Ref(d),
                            !.calls = <<Called("InsertOne", drv.err)>>,
                            !.err = r.err]
            /\ chain' = IF r.err = Nil
                        THEN [stage |-> 1, collection |-> c, doc |-> Ref(d)]
                        ELSE NoChain
            /\ UNCHANGED <<openCursors, connectVars>>

ReadOne ==
    /\ Connected
    /\ \E c \in Collections, q \in Queries, fail \in {Nil} \cup DriverErrors :
        \E drv \in FindOne(store[c], q, fail) :
            LET r == ReadOneReturn(drv)
            IN  /\ last' = [NoCall EXCEPT !.op = "ReadOne", !.collection = c,
                                !.query = Ref(q),
                                !.matched = Cardinality(Matching(store[c], q)),
                                !.calls = <<Called("FindOne", drv.err)>>,
                                !.res = r.res, !.err = r.err]
                /\ chain' = Advance("ReadOne", c, q, fail)
                /\ UNCHANGED <<store, openCursors, connectVars>>

UpdateOne ==
    /\ Connected
    /\ \E c \in Collections, q \in Queries, n \in Names, fail \in {Nil} \cup DriverErrors :
        \E drv \in DriverUpdateOne(store[c], q, n, fail) :
            LET r == UpdateOneReturn(drv)
            IN  /\ store' = [store EXCEPT ![c] = drv.docs]
                /\ last' = [NoCall EXCEPT !.op = "UpdateOne", !.collection = c,
                                !.query = Ref(q),
                                !.matched = Cardinality(Matching(store[c], q)),
                                !.calls = <<Called("UpdateOne", drv.err)>>,
                                !.err = r.err]
                /\ chain' = NoChain
                /\ UNCHANGED <<openCursors, connectVars>>

DeleteOne ==
    /\ Connected
    /\ \E c \in Collections, q \in Queries, fail \in {Nil} \cup DriverErrors :
        \E drv \in DriverDeleteOne(store[c], q, fail) :
            LET r == DeleteOneReturn(drv)
            IN  /\ store' = [store EXCEPT ![c] = drv.docs]
                /\ last' = [NoCall EXCEPT !.op = "DeleteOne", !.collection = c,
                                !.query = Ref(q),
                                !.matched = Cardinality(Matching(store[c], q)),
                                !.calls = <<Called("DeleteOne", drv.err)>>,
                                !.deleted = drv.DeletedCount,
                                !.count = r.count, !.err = r.err]
                /\ chain' = Advance("DeleteOne", c, q, fail)
                /\ UNCHANGED <<openCursors, connectVars>>

Read ==
    /\ Connected
    /\ \E c \in Collections, q \in Queries, fail \in ReadAnswers :
        LET r == ReadReturn(store[c], q, fail[1], fail[2])
        IN  /\ last' = [NoCall EXCEPT !.op = "Read", !.collection = c,
                            !.query = Ref(q),
                            !.matched = Cardinality(Matching(store[c], q)),
                            !.calls = r.calls, !.res = r.res, !.err = r.err,
                            !.cursors = r.cursors, !.closes = r.closes]
            /\ openCursors' = openCursors + r.cursors - r.closes
            /\ chain' = NoChain
            /\ UNCHANGED <<store, connectVars>>

ReadWithProjection ==
    /\ Connected
    /\ \E c \in Collections, q \in Queries, p \in Projections, fail \in ReadAnswers :
        LET r == ReadWithProjectionReturn(store[c], q, p, fail[1], fail[2])
        IN  /\ last' = [NoCall EXCEPT !.op = "ReadWithProjection", !.collection = c,
                            !.query = Ref(q),
                            !.matched = Cardinality(Matching(store[c], q)),
                            !.calls = r.calls, !.res = r.res, !.err = r.err,
                            !.cursors = r.cursors, !.closes = r.closes]
            /\ openCursors' = openCursors + r.cursors - r.closes
            /\ chain' = NoChain
            /\ UNCHANGED <<store, connectVars>>

-----------------------------------------------------------------------------
(* Specifications *)

\* Before New: no configuration, no options, no handle.
InitConnect ==
    /\ config = Nil
    /\ options = Nil
    /\ driverCalls = <<>>
    /\ dbClient = Nil
    /\ err = Nil

\* The driver's store before any call of the facade: empty collections.
InitStore ==
    /\ store = [c \in Collections |-> {}]
    /\ openCursors = 0
    /\ last = NoCall
    /\ chain = NoChain

\* hosts=["localhost:27017"], authEnabled=false, tlsEnabled=false, database="testdb"
LocalConfig ==
    [Hosts |-> <<"localhost:27017">>, AuthEnabled |-> FALSE, User |-> "admin",
     Password |-> "secret", AuthSource |-> "admin", TLSEnabled |-> FALSE,
     Database |-> "testdb", Connection |-> Nil]

\* After a New that succeeded against a reachable instance.
InitConnected ==
    LET r == Connect(LocalConfig, Nil, Nil, Nil)
    IN  /\ config = Ref(LocalConfig)
        /\ options = Ref(r.options)
        /\ driverCalls = r.calls
        /\ dbClient = r.dbClient
        /\ err = r.err

Init == InitConnect /\ InitStore

Next == New

\* New on every configuration and every answer of the driver.
Spec == Init /\ [][Next]_vars

InitClient == InitConnected /\ InitStore

NextClient ==
    \/ CreateOne
    \/ ReadOne
    \/ UpdateOne
    \/ DeleteOne
    \/ Read
    \/ ReadWithProjection

\* The facade's calls on a connected handle, in any order.
SpecClient == InitClient /\ [][NextClient]_vars

-----------------------------------------------------------------------------
(* Properties of New and Config.connect, checked under Spec *)

Called_(i) == driverCalls[i]
Returned == config # Nil
Conn == Deref(Deref(config).Connection)
HasConnection == Returned /\ Deref(config).Connection # Nil
Opts == Deref(options)

\* C1: New returns a non-nil handle only after NewClient, Connect and Ping have
\* all succeeded, in that order, Ping being issued only after Connect succeeded;
\* on every failure (NewClient, Connect or Ping) the handle is nil and the error
\* is non-nil.
C1_HandleOnlyAfterPing ==
    Returned =>
        /\ dbClient # Nil =>
            /\ err = Nil
            /\ driverCalls = <<Called("NewClient", Nil), Called("Connect", Nil),
                               Called("Ping", Nil)>>
        /\ \A i \in DOMAIN driverCalls :
            /\ Called_(i).err # Nil => dbClient = Nil /\ err # Nil
            /\ Called_(i).fn = "Ping" => i > 1 /\ Called_(i - 1) = Called("Connect", Nil)
        /\ (dbClient = Nil) = (err # Nil)

\* New returned nil and an error because the ping failed after a successful connect.
C1_Witness ==
    /\ Len(driverCalls) = 3
    /\ Called_(3).fn = "Ping"
    /\ Called_(3).err # Nil
    /\ dbClient = Nil
    /\ err # Nil

\* C2: for every driver error e, the error New returns when Connect fails with e
\* is not the error it returns when Ping fails with e, and the other way round.
C2_PhasesDistinguishable ==
    Returned =>
        \A i \in DOMAIN driverCalls :
            /\ Called_(i).fn = "Connect" /\ Called_(i).err # Nil =>
                /\ err # Nil
                /\ err # PingFailed(Called_(i).err)
            /\ Called_(i).fn = "Ping" /\ Called_(i).err # Nil =>
                /\ err # Nil
                /\ err # ConnectFailed(Called_(i).err)

\* New returned the wrapped error of a failed Connect.
C2_Witness ==
    /\ Len(driverCalls) = 2
    /\ Called_(2).fn = "Connect"
    /\ Called_(2).err \in DriverErrors
    /\ err = ConnectFailed(Called_(2).err)

\* The field of options.ClientOptions a Connection field is meant to set.
OptionOf(f) ==
    CASE f = "ReplicaSetName" -> "ReplicaSet"
      [] f = "ReadConcernWithMajority" -> "ReadConcern"
      [] f = "ReadSecondaryPreferred" -> "ReadPreference"
      [] f \in {"WriteConcernWithMajority", "WriteConcernTimeout"} -> "WriteConcern"
      [] OTHER -> f

\* Connection field f is at its zero value (or there is no Connection at all).
IsZero(f) == ~HasConnection \/ Conn[f] = ZeroValue(f)

\* The option of field f is the driver's default: no setter was called for it; for
\* the write-concern timeout, no write concern was set or the one set has none.
LeftAtDefault(f) ==
    IF f = "WriteConcernTimeout"
    THEN Opts.WriteConcern = Unset \/ Deref(Opts.WriteConcern).WTimeout = 0
    ELSE Opts[OptionOf(f)] = Unset

\* C7: every connection-tuning field left at its zero value (0, false, empty, or
\* no Connection record) is not set on the options connect builds: the option
\* stays at the driver's default.
C7_ZeroFieldsNotSet ==
    Returned => \A f \in ConnectionFields : IsZero(f) => LeftAtDefault(f)

\* A Connection with MinPoolSize set and MaxPoolSize zero: the first is applied,
\* the second is not.
C7_Witness ==
    /\ HasConnection
    /\ Conn.MinPoolSize # 0
    /\ Conn.MaxPoolSize = 0
    /\ Opts.MinPoolSize = Ref(Conn.MinPoolSize)
    /\ Opts.MaxPoolSize = Unset

\* C9: with WriteConcernWithMajority the options carry the write concern
\* "majority", and with a non-zero WriteConcernTimeout as well that write concern
\* carries the timeout, WriteConcernTimeout milliseconds.
C9_WriteConcernCarriesTimeout ==
    HasConnection /\ Conn.WriteConcernWithMajority =>
        /\ Opts.WriteConcern # Unset
        /\ Deref(Opts.WriteConcern).W = "majority"
        /\ Conn.WriteConcernTimeout # 0 =>
            Deref(Opts.WriteConcern).WTimeout = Duration(Conn.WriteConcernTimeout)

\* The fields C10 lists: every Connection field but WriteConcernTimeout.
ListedFields == ConnectionFields \ {"WriteConcernTimeout"}

\* The option of field f holds the configured value.
Applied(f) ==
    CASE f \in PoolFields -> Opts[f] = Ref(Conn[f])
      [] f \in MillisFields -> Opts[f] = Ref(Duration(Conn[f]))
      [] f \in {"RetryReads", "RetryWrites"} -> Opts[f] = Ref(Conn[f])
      [] f = "ReplicaSetName" -> Opts.ReplicaSet = Ref(Conn[f])
      [] f = "ReadConcernWithMajority" -> Opts.ReadConcern = Ref([Level |-> "majority"])
      [] f = "ReadSecondaryPreferred" ->
            Opts.ReadPreference = Ref([Mode |-> "secondaryPreferred"])
      [] f = "WriteConcernWithMajority" ->
            Opts.WriteConcern # Unset /\ Deref(Opts.WriteConcern).W = "majority"

\* C10: every listed connection-tuning field that is non-zero is applied to the
\* options connect builds, with the configured value (durations in milliseconds).
C10_NonZeroFieldsApplied ==
    HasConnection =>
        \A f \in ListedFields : Conn[f] # ZeroValue(f) => Applied(f)

-----------------------------------------------------------------------------
(* Properties of the facade, checked under SpecClient *)

IsRead == last.op \in {"ReadOne", "Read", "ReadWithProjection"}
IsCursorRead == last.op \in {"Read", "ReadWithProjection"}

\* The driver answered every call of the last facade call: no call failed with an
\* error other than the no-documents sentinel.
DriverAnswered ==
    \A i \in DOMAIN last.calls : last.calls[i].err \in {Nil, ErrNoDocuments}

\* C3: ReadOne, Read and ReadWithProjection return (nil, nil) whenever the query
\* the driver answered matches no document, in an empty collection and in one
\* whose documents the filter does not match.
C3_ZeroMatchIsAbsent ==
    IsRead /\ last.matched = 0 /\ DriverAnswered =>
        last.res = Nil /\ last.err = Nil

\* ReadOne on a collection that holds documents, none matching: the driver
\* answered with the sentinel and ReadOne returned (nil, nil).
C3_Witness ==
    /\ last.op = "ReadOne"
    /\ store[last.collection] # {}
    /\ last.matched = 0
    /\ last.calls = <<Called("FindOne", ErrNoDocuments)>>
    /\ last.res = Nil
    /\ last.err = Nil

Closes == Cardinality({i \in DOMAIN last.calls : last.calls[i].fn = "Close"})

\* C4: a cursor opened by Read or ReadWithProjection is closed exactly once before
\* the call returns, whether cursor.All succeeded, found nothing or failed; when
\* Find fails there is no cursor and nothing is closed.
C4_CursorClosedOnce ==
    /\ openCursors = 0
    /\ IsCursorRead =>
        IF last.calls[1].err = Nil
        THEN /\ last.cursors = 1
             /\ last.closes = 1
             /\ Closes = 1
             /\ last.calls[Len(last.calls)].fn = "Close"
        ELSE /\ last.cursors = 0
             /\ last.closes = 0
             /\ Closes = 0

\* cursor.All failed and the cursor was closed before Read returned the error.
C4_Witness ==
    /\ last.op = "Read"
    /\ Len(last.calls) = 3
    /\ last.calls[2] = Called("All", last.err)
    /\ last.err # Nil
    /\ last.closes = 1
    /\ openCursors = 0

\* C5: DeleteOne returns (0, nil) when the filter matches nothing and (1, nil) when
\* it matches exactly one document; the count is the driver's DeletedCount, and
\* it is 0 when the driver reports an error.
C5_DeleteOneCount ==
    last.op = "DeleteOne" =>
        IF last.calls[1].err # Nil
        THEN last.count = 0
        ELSE /\ last.err = Nil
             /\ last.count = last.deleted
             /\ last.matched = 0 => last.count = 0
             /\ last.matched = 1 => last.count = 1

\* DeleteOne of a filter matching exactly one document returned (1, nil).
C5_Witness ==
    /\ last.op = "DeleteOne"
    /\ last.matched = 1
    /\ last.count = 1
    /\ last.err = Nil

\* C6: after a CreateOne that returned nil, a ReadOne of the document's _id returns
\* the inserted document, a DeleteOne of that _id after it returns count 1, and a
\* ReadOne of that _id after that returns (nil, nil).
C6_CreateReadDeleteRead ==
    /\ chain.stage = 2 => last.res = chain.doc /\ last.err = Nil
    /\ chain.stage = 3 => last.count = 1 /\ last.err = Nil
    /\ chain.stage = 4 => last.res = Nil /\ last.err = Nil

\* The whole sequence was run: the last ReadOne found the deleted document absent.
C6_Witness ==
    /\ chain.stage = 4
    /\ last.op = "ReadOne"
    /\ last.query = Ref(ById(Deref(chain.doc)._id))
    /\ last.res = Nil

\* C8: an error of the driver, other than the no-documents sentinel in ReadOne,
\* is returned as it is, with a nil result and a zero count.
C8_DriverErrorUnchanged ==
    \A i \in DOMAIN last.calls :
        /\ last.calls[i].err # Nil
        /\ ~(last.op = "ReadOne" /\ last.calls[i].err = ErrNoDocuments)
        => /\ last.err = last.calls[i].err
           /\ last.res = Nil
           /\ last.count = 0

\* CreateOne of an _id already stored returned the driver's duplicate-key error.
C8_Witness ==
    /\ last.op = "CreateOne"
    /\ last.calls = <<Called("InsertOne", ErrDuplicateKey)>>
    /\ last.err = ErrDuplicateKey

====
